---- MODULE Spec2Model ----
(***************************************************************************)
(* A model of lucupy's helpers (lucupy/helpers/__init__.py) and of the     *)
(* ObservatoryProperties registry (lucupy/observatory/abstract).           *)
(*                                                                         *)
(* Every operation is an action that records the call it served in `call`  *)
(* and its outcome in `ret`; `properties` is the registry's slot and `gen` *)
(* the state of a running flatten generator.  The helpers and the registry *)
(* do not compose, so each has a specification of its own.                 *)
(***************************************************************************)
EXTENDS Integers, Sequences, FiniteSets, TLC

VARIABLES properties, call, ret, gen

vars == <<properties, call, ret, gen>>

(***************************************************************************)
(* Outcomes of a call: a returned value or a raised exception.             *)
(***************************************************************************)
Return(v) == [kind |-> "return", val |-> v]

Raise(e) == [kind |-> "raise", exc |-> e]

NoCall == [op |-> "none"]

NoRet == [kind |-> "none"]

NoGen == [status |-> "none"]

(***************************************************************************)
(* ObservatoryProperties                                                   *)
(***************************************************************************)

\* The three queries of the class.
Ops == {"determine_standard_time", "is_instrument", "acquisition_time"}

\* The classes a caller may hand to set_properties: whether the class derives
\* from ObservatoryProperties, which of the three operations its own body
\* defines, and whether calling it with no argument constructs an instance.
Classes ==
    [subclass : BOOLEAN, defines : SUBSET Ops, instantiable : BOOLEAN]

Resources == {"r1", "r2"}

Wavelengths == {"w1", "w2"}

ObservationModes == {"m1", "m2"}

CalLengths == {1, 2}

\* The argument tuples of each query.
ArgsOf(op) ==
    CASE op = "determine_standard_time" ->
            Resources \X Wavelengths \X ObservationModes \X CalLengths
      [] op = "is_instrument" -> {<<r>> : r \in Resources}
      [] op = "acquisition_time" -> Resources \X ObservationModes

\* The depth at which the interpreter gives up on nested calls.
RecursionLimit == 3

\* The slot: <<>> is None, <<c>> an instance of class c.
None == <<>>

\* What the body that class c itself defines for op returns on args: the code
\* of an observatory is not part of the library, its result is a term.
OwnResult(c, op, args) == Return(<<c, op, args>>)

RECURSIVE Invoke(_, _, _, _)

\* ObservatoryProperties._check_properties()
check_properties(slot) ==
    IF slot = None THEN Raise("ValueError") ELSE Return(None)

\* ObservatoryProperties.determine_standard_time(resources, wavelengths, modes,
\* cal_length), entered at call depth `depth`.
determine_standard_time(slot, args, depth) ==
    IF slot # None
    THEN LET chk == check_properties(slot)
         IN  IF chk.kind = "raise"
             THEN chk
             ELSE Invoke(slot, "determine_standard_time",
                         <<args[1], args[2], args[3], args[4]>>, depth)
    ELSE Raise("ValueError")

\* An is_instrument that answers for itself when nothing is installed.
is_instrument_with_default(slot, args, depth) ==
    IF slot # None
    THEN Invoke(slot, "is_instrument", <<args[1]>>, depth)
    ELSE Return(<<>>)

\* ObservatoryProperties.is_instrument(resource)
is_instrument(slot, args, depth) ==
    IF slot # None
    THEN Invoke(slot, "is_instrument", <<args[1]>>, depth)
    ELSE Raise("ValueError")

\* ObservatoryProperties.acquisition_time(resource, observation_mode)
acquisition_time(slot, args, depth) ==
    IF slot # None
    THEN Invoke(slot, "acquisition_time", <<args[1], args[2]>>, depth)
    ELSE Raise("ValueError")

\* The method call  ObservatoryProperties._properties.op(*args): the body the
\* instance's class defines, or else the static method it inherits from
\* ObservatoryProperties, which is the query itself, one call deeper.
Invoke(slot, op, args, depth) ==
    LET c == slot[1]
    IN  IF op \in c.defines
        THEN OwnResult(c, op, args)
        ELSE IF depth >= RecursionLimit
        THEN Raise("RecursionError")
        ELSE CASE op = "determine_standard_time" ->
                      determine_standard_time(slot, args, depth + 1)
               [] op = "is_instrument" -> is_instrument(slot, args, depth + 1)
               [] op = "acquisition_time" ->
                      acquisition_time(slot, args, depth + 1)

\* A query as a caller makes it.
Query(slot, op, args) ==
    CASE op = "determine_standard_time" -> determine_standard_time(slot, args, 0)
      [] op = "is_instrument" -> is_instrument(slot, args, 0)
      [] op = "acquisition_time" -> acquisition_time(slot, args, 0)

\* A set_properties that installs whatever it is given.
set_properties_unchecked(slot, c) ==
    IF ~c.instantiable
    THEN [slot |-> slot, ret |-> Raise("TypeError")]
    ELSE [slot |-> <<c>>, ret |-> Return(None)]

\* A set_properties that keeps the first instance installed.
set_properties_once(slot, c) ==
    IF ~c.subclass
    THEN [slot |-> slot, ret |-> Raise("ValueError")]
    ELSE IF ~c.instantiable
    THEN [slot |-> slot, ret |-> Raise("TypeError")]
    ELSE [slot |-> IF slot = None THEN <<c>> ELSE slot, ret |-> Return(None)]

\* A set_properties that clears the slot before it checks the class.
set_properties_clearing(slot, c) ==
    IF ~c.subclass
    THEN [slot |-> None, ret |-> Raise("ValueError")]
    ELSE IF ~c.instantiable
    THEN [slot |-> None, ret |-> Raise("TypeError")]
    ELSE [slot |-> <<c>>, ret |-> Return(None)]

\* ObservatoryProperties.set_properties(cls): the slot after the call and the
\* call's outcome.  cls() raises for a class that cannot be constructed
\* without arguments, before the assignment.
set_properties(slot, c) ==
    IF ~c.subclass
    THEN [slot |-> slot, ret |-> Raise("ValueError")]
    ELSE IF ~c.instantiable
    THEN [slot |-> slot, ret |-> Raise("TypeError")]
    ELSE [slot |-> <<c>>, ret |-> Return(None)]

RegistryInit ==
    /\ properties = None
    /\ call = NoCall
    /\ ret = NoRet
    /\ gen = NoGen

SetProperties ==
    \E c \in Classes :
        LET r == set_properties(properties, c)
        IN  /\ properties' = r.slot
            /\ ret' = r.ret
            /\ call' = [op |-> "set_properties", cls |-> c, pre |-> properties]
            /\ UNCHANGED gen

Ask ==
    \E op \in Ops : \E args \in ArgsOf(op) :
        /\ ret' = Query(properties, op, args)
        /\ call' = [op |-> op, args |-> args, pre |-> properties]
        /\ UNCHANGED <<properties, gen>>

RegistryNext == SetProperties \/ Ask

RegistrySpec == RegistryInit /\ [][RegistryNext]_vars

(***************************************************************************)
(* Angle conversion: dms2deg, dmsstr2deg.                                  *)
(*                                                                         *)
(* A float is modelled by the exact rational <<num, den>>, den > 0, it     *)
(* stands for; a string by the sequence of its characters.                 *)
(***************************************************************************)

RECURSIVE Gcd(_, _)
Gcd(a, b) == IF b = 0 THEN a ELSE Gcd(b, a % b)

\* A rational in lowest terms, and equality of the numbers two rationals
\* stand for.
Lowest(a) ==
    LET g == Gcd(IF a[1] < 0 THEN -a[1] ELSE a[1], a[2])
    IN  <<a[1] \div g, a[2] \div g>>

RatEq(a, b) == Lowest(a) = Lowest(b)

\* SIGNS = {'': 1, '+': 1, '-': -1}
SIGNS == ("" :> 1) @@ ("+" :> 1) @@ ("-" :> -1)

\* A dms2deg that leaves an angle of exactly 180 degrees unwrapped.
dms2deg_wrap_above(d, m, s, sign) ==
    IF sign \notin DOMAIN SIGNS
    THEN Raise("ValueError")
    ELSE LET den == 3600 * s[2]
             num == SIGNS[sign] * (d * 3600 * s[2] + m * 60 * s[2] + s[1])
         IN  IF num <= 180 * den
             THEN Return(<<num, den>>)
             ELSE Return(<<-(360 * den - num), den>>)

\* dms2deg(d, m, s, sign): dec = SIGNS[sign] * (d + m / 60.0 + s / 3600.0),
\* returned as it is when dec < 180 and as -(360 - dec) otherwise.
dms2deg(d, m, s, sign) ==
    IF sign \notin DOMAIN SIGNS
    THEN Raise("ValueError")
    ELSE LET den == 3600 * s[2]
             num == SIGNS[sign] * (d * 3600 * s[2] + m * 60 * s[2] + s[1])
         IN  IF num < 180 * den
             THEN Return(<<num, den>>)
             ELSE Return(<<-(360 * den - num), den>>)

DigitValue ==
    ("0" :> 0) @@ ("1" :> 1) @@ ("2" :> 2) @@ ("3" :> 3) @@ ("4" :> 4) @@
    ("5" :> 5) @@ ("6" :> 6) @@ ("7" :> 7) @@ ("8" :> 8) @@ ("9" :> 9)

IsDigits(t) == \A i \in 1..Len(t) : t[i] \in DOMAIN DigitValue

RECURSIVE DigitsValue(_)
DigitsValue(t) ==
    IF t = <<>>
    THEN 0
    ELSE 10 * DigitsValue(SubSeq(t, 1, Len(t) - 1)) + DigitValue[t[Len(t)]]

RECURSIVE Pow10(_)
Pow10(n) == IF n = 0 THEN 1 ELSE 10 * Pow10(n - 1)

\* The builtin int(t) on a string of digits, signs, points and other
\* characters: an optional sign and then one digit or more.
ParseInt(t) ==
    LET signed == t # <<>> /\ t[1] \in {"+", "-"}
        body == IF signed THEN Tail(t) ELSE t
        sgn == IF signed /\ t[1] = "-" THEN -1 ELSE 1
    IN  IF body # <<>> /\ IsDigits(body)
        THEN Return(sgn * DigitsValue(body))
        ELSE Raise("ValueError")

\* The builtin float(t) on such a string: an optional sign, then digits with at
\* most one point among them, and one digit at least.
ParseFloat(t) ==
    LET signed == t # <<>> /\ t[1] \in {"+", "-"}
        body == IF signed THEN Tail(t) ELSE t
        sgn == IF signed /\ t[1] = "-" THEN -1 ELSE 1
        points == {i \in 1..Len(body) : body[i] = "."}
        digits == SelectSeq(body, LAMBDA ch : ch # ".")
        frac == IF points = {} THEN 0 ELSE Len(body) - (CHOOSE i \in points : TRUE)
    IN  IF Cardinality(points) <= 1 /\ digits # <<>> /\ IsDigits(digits)
        THEN Return(<<sgn * DigitsValue(digits), Pow10(frac)>>)
        ELSE Raise("ValueError")

\* str.split(sep) for a one-character separator: the pieces between the
\* separators, empty pieces kept; the empty string splits into one empty piece.
RECURSIVE Split(_, _)
Split(t, sep) ==
    IF \A i \in 1..Len(t) : t[i] # sep
    THEN <<t>>
    ELSE LET k == CHOOSE i \in 1..Len(t) :
                      t[i] = sep /\ \A j \in 1..(i - 1) : t[j] # sep
         IN  <<SubSeq(t, 1, k - 1)>> \o Split(SubSeq(t, k + 1, Len(t)), sep)

\* A dmsstr2deg that reads the sign from the first field and leaves it there.
dmsstr2deg_sign_in_field(s) ==
    IF s = <<>>
    THEN Raise("ValueError")
    ELSE LET sign == IF s[1] \in {"+", "-"} THEN s[1] ELSE "+"
             rest == IF s[1] = "+" THEN Tail(s) ELSE s
             result == Split(rest, ":")
         IN  IF Len(result) # 3
             THEN Raise("ValueError")
             ELSE LET d == ParseInt(result[1])
                      m == ParseInt(result[2])
                      sec == ParseFloat(result[3])
                  IN  IF d.kind = "raise" THEN d
                      ELSE IF m.kind = "raise" THEN m
                      ELSE IF sec.kind = "raise" THEN sec
                      ELSE dms2deg(d.val, m.val, sec.val, "+")

\* dmsstr2deg(s)
dmsstr2deg(s) ==
    IF s = <<>>
    THEN Raise("ValueError")
    ELSE LET signed == s[1] \in DOMAIN SIGNS
             sign == IF signed THEN s[1] ELSE "+"
             rest == IF signed THEN Tail(s) ELSE s
             result == Split(rest, ":")
         IN  IF Len(result) # 3
             THEN Raise("ValueError")
             ELSE LET d == ParseInt(result[1])
                      m == ParseInt(result[2])
                      sec == ParseFloat(result[3])
                  IN  IF d.kind = "raise" THEN d
                      ELSE IF m.kind = "raise" THEN m
                      ELSE IF sec.kind = "raise" THEN sec
                      ELSE dms2deg(d.val, m.val, sec.val, sign)

\* The arguments the model hands to dms2deg.
MaxDegrees == 200

Minutes == {0, 30, 59}

Seconds == {<<0, 1>>, <<30, 1>>, <<5, 10>>, <<599, 10>>}

SignArgs == {"", "+", "-", "x"}

\* The strings the model hands to dmsstr2deg: up to MaxFields fields joined by
\* colons, after nothing, a sign or another character.
MaxFields == 4

FieldTexts ==
    { <<>>, <<"0">>, <<"0", "0">>, <<"1", "0">>, <<"3", "0">>,
      <<"2", "0", "0">>, <<"x">>, <<"-", "1", "0">>, <<"0", ".", "5">> }

Prefixes == {<<>>, <<"+">>, <<"-">>}

RECURSIVE Join(_)
Join(fields) ==
    IF Len(fields) = 1
    THEN fields[1]
    ELSE fields[1] \o <<":">> \o Join(Tail(fields))

\* A call of one of the two conversions, not yet served.
DmsInit ==
    /\ properties = None
    /\ gen = NoGen
    /\ ret = NoRet
    /\ \/ \E d \in 0..MaxDegrees : \E m \in Minutes : \E s \in Seconds :
          \E sign \in SignArgs :
              call = [op |-> "dms2deg", d |-> d, m |-> m, s |-> s, sign |-> sign]
       \/ call = [op |-> "dmsstr2deg", s |-> <<>>]
       \/ \E n \in 1..MaxFields : \E f \in [1..n -> FieldTexts] :
          \E p \in Prefixes :
              call = [op |-> "dmsstr2deg", s |-> p \o Join(f)]

Dms2Deg ==
    /\ call.op = "dms2deg"
    /\ ret = NoRet
    /\ ret' = dms2deg(call.d, call.m, call.s, call.sign)
    /\ UNCHANGED <<properties, call, gen>>

DmsStr2Deg ==
    /\ call.op = "dmsstr2deg"
    /\ ret = NoRet
    /\ ret' = dmsstr2deg(call.s)
    /\ UNCHANGED <<properties, call, gen>>

DmsNext == Dms2Deg \/ DmsStr2Deg

DmsSpec == DmsInit /\ [][DmsNext]_vars

(***************************************************************************)
(* lerp_enum.  The values of the enumeration and the two end values are    *)
(* integers; a grid point is the exact rational <<num, den>>.              *)
(***************************************************************************)

\* numpy.linspace(start, stop, num): start + i * (stop - start) / (num - 1)
\* for i = 0 .. num - 1.
Linspace(start, stop, num) ==
    [i \in 1..num |-> <<start * (num - 1) + (i - 1) * (stop - start), num - 1>>]

\* The grid with its two end points kept.
InterpValuesWithEnds(first_value, last_value, n) ==
    Linspace(first_value, last_value, n + 2)

\* np.linspace(first_value, last_value, n + 2)[1:-1]
InterpValues(first_value, last_value, n) ==
    LET grid == Linspace(first_value, last_value, n + 2)
    IN  SubSeq(grid, 2, Len(grid) - 1)

\* sorted(values): the values in ascending order.
RECURSIVE Sorted(_)
Sorted(values) ==
    IF values = {}
    THEN <<>>
    ELSE LET least == CHOOSE v \in values : \A w \in values : v <= w
         IN  <<least>> \o Sorted(values \ {least})

\* bisect.bisect_right(a, x) on a sorted list: the number of entries <= x.
BisectRight(a, x) == Cardinality({j \in 1..Len(a) : a[j] * x[2] <= x[1]})

\* bisect.bisect_left(a, x) on a sorted list: the number of entries < x.
BisectLeft(a, x) == Cardinality({j \in 1..Len(a) : a[j] * x[2] < x[1]})

\* The subscription a[i] of a list: a negative index counts from the end, an
\* index outside the list raises IndexError.
Subscript(a, i) ==
    IF 0 <= i /\ i < Len(a)
    THEN Return(a[i + 1])
    ELSE IF i < 0 /\ -i <= Len(a)
    THEN Return(a[Len(a) + i + 1])
    ELSE Raise("IndexError")

\* A lerp_enum that subscripts with the insertion point itself.
lerp_enum_off_by_one(enum_class, first_value, last_value, n) ==
    LET interp_values == InterpValues(first_value, last_value, n)
        sorted_values == Sorted(enum_class)
        picks == [k \in 1..Len(interp_values) |->
                     IF first_value <= last_value
                     THEN Subscript(sorted_values,
                                    BisectRight(sorted_values, interp_values[k]))
                     ELSE Subscript(sorted_values,
                                    BisectLeft(sorted_values, interp_values[k]))]
    IN  IF \E k \in 1..Len(picks) : picks[k].kind = "raise"
        THEN Raise("IndexError")
        ELSE Return([k \in 1..Len(picks) |-> picks[k].val])

\* lerp_enum(enum_class, first_value, last_value, n), enum_class given by the
\* set of its members' values.
lerp_enum(enum_class, first_value, last_value, n) ==
    LET interp_values == InterpValues(first_value, last_value, n)
        sorted_values == Sorted(enum_class)
        picks == [k \in 1..Len(interp_values) |->
                     IF first_value <= last_value
                     THEN Subscript(sorted_values,
                                    BisectRight(sorted_values, interp_values[k]) - 1)
                     ELSE Subscript(sorted_values,
                                    BisectLeft(sorted_values, interp_values[k]) - 1)]
    IN  IF \E k \in 1..Len(picks) : picks[k].kind = "raise"
        THEN Raise("IndexError")
        ELSE Return([k \in 1..Len(picks) |-> picks[k].val])

\* The enumerations, end values and slot counts the model hands to lerp_enum.
MaxEnumValue == 3

MaxSlots == 3

LerpInit ==
    /\ properties = None
    /\ gen = NoGen
    /\ ret = NoRet
    /\ \E e \in SUBSET (0..MaxEnumValue) :
       \E f \in (-1)..(MaxEnumValue + 1) : \E l \in (-1)..(MaxEnumValue + 1) :
       \E n \in 0..MaxSlots :
           call = [op |-> "lerp_enum", enum_class |-> e, first_value |-> f,
                   last_value |-> l, n |-> n]

LerpEnum ==
    /\ call.op = "lerp_enum"
    /\ ret = NoRet
    /\ ret' = lerp_enum(call.enum_class, call.first_value, call.last_value, call.n)
    /\ UNCHANGED <<properties, call, gen>>

LerpNext == LerpEnum

LerpSpec == LerpInit /\ [][LerpNext]_vars

(***************************************************************************)
(* round_minute.  A timestamp is a count of ticks, TicksPerSecond to the   *)
(* second; a Time is a scalar or an array of timestamps.                   *)
(***************************************************************************)

TicksPerSecond == 2

SecondsPerMinute == 60

TicksPerMinute == SecondsPerMinute * TicksPerSecond

\* The 'iso' string of a timestamp under out_subfmt 'date_hm': the date, the
\* hour and the minute, the seconds left out; here the number of the minute.
IsoDateHm(tick) == tick \div TicksPerMinute

\* Time(text, format='iso', scale='utc') of such a string: the start of the
\* minute it names.
FromIsoDateHm(minute) == minute * TicksPerMinute

\* strftime('%S') of a timestamp, read as an integer: its whole seconds.
SecondOf(tick) == (tick \div TicksPerSecond) % SecondsPerMinute

\* round_minute(time, up).  Time.strftime gives one str for a scalar Time and
\* an array of str for an array; a str has no astype.
round_minute(time, up) ==
    IF up /\ time.scalar
    THEN Raise("AttributeError")
    ELSE LET sec == [i \in 1..Len(time.vals) |-> SecondOf(time.vals[i])]
             t == [i \in 1..Len(time.vals) |->
                      IF up /\ sec[i] > 0
                      THEN time.vals[i] + TicksPerMinute
                      ELSE time.vals[i]]
         IN  Return([scalar |-> time.scalar,
                     vals |-> [i \in 1..Len(t) |->
                                  FromIsoDateHm(IsoDateHm(t[i]))]])

\* The timestamps and array lengths the model hands to round_minute: those up
\* to MaxTick within a second and a half after a minute's start or within a
\* second before it.
MaxTick == 130

MaxArrayLen == 2

Timestamps ==
    { x \in 0..MaxTick :
          \/ x % TicksPerMinute < 2 * TicksPerSecond
          \/ x % TicksPerMinute >= TicksPerMinute - TicksPerSecond }

Times ==
    { [scalar |-> TRUE, vals |-> <<x>>] : x \in Timestamps } \cup
    UNION { { [scalar |-> FALSE, vals |-> v] : v \in [1..n -> Timestamps] }
            : n \in 0..MaxArrayLen }

RoundInit ==
    /\ properties = None
    /\ gen = NoGen
    /\ ret = NoRet
    /\ \E time \in Times : \E up \in BOOLEAN :
           call = [op |-> "round_minute", time |-> time, up |-> up]

RoundMinute ==
    /\ call.op = "round_minute"
    /\ ret = NoRet
    /\ ret' = round_minute(call.time, call.up)
    /\ UNCHANGED <<properties, call, gen>>

RoundNext == RoundMinute

RoundSpec == RoundInit /\ [][RoundNext]_vars

(***************************************************************************)
(* flatten, a generator: the frames of the nested flatten calls are the    *)
(* stack, each with the elements it iterates over and its place in them.   *)
(***************************************************************************)

IntLeaf(k) == [kind |-> "int", val |-> k]

StrLeaf(chars) == [kind |-> "str", chars |-> chars]

BytesLeaf(octets) == [kind |-> "bytes", octets |-> octets]

ListOf(items) == [kind |-> "list", items |-> items]

\* isinstance(el, Iterable)
IsIterable(el) == el.kind \in {"list", "str", "bytes"}

\* What iterating over el yields: the items of a list, the one-character
\* strings of a str, the integers of a bytes.
Elements(el) ==
    CASE el.kind = "list" -> el.items
      [] el.kind = "str" -> [i \in 1..Len(el.chars) |-> StrLeaf(<<el.chars[i]>>)]
      [] el.kind = "bytes" -> [i \in 1..Len(el.octets) |-> IntLeaf(el.octets[i])]

\* A test that spares str alone.
ShouldDescendSparingStr(el) == IsIterable(el) /\ el.kind # "str"

\* isinstance(el, Iterable) and not isinstance(el, (str, bytes))
ShouldDescend(el) == IsIterable(el) /\ el.kind \notin {"str", "bytes"}

\* The structures the model hands to flatten: lists of up to MaxWidth items,
\* each a leaf or a list of up to MaxWidth leaves; and by name the nested list
\* [1, 2, [3, [4, 5]], "ab"], a list holding a bytes, a bare str and a bare
\* integer.
MaxWidth == 2

Leaves == {IntLeaf(1), IntLeaf(2), StrLeaf(<<"a", "b">>)}

ListsOver(items) ==
    UNION { { ListOf(f) : f \in [1..n -> items] } : n \in 0..MaxWidth }

Example ==
    ListOf(<<IntLeaf(1), IntLeaf(2), ListOf(<<IntLeaf(3), ListOf(<<IntLeaf(4), IntLeaf(5)>>)>>),
           StrLeaf(<<"a", "b">>)>>)

Others ==
    { Example, ListOf(<<BytesLeaf(<<97, 98>>), ListOf(<<IntLeaf(1)>>)>>),
      StrLeaf(<<"a", "b">>), IntLeaf(1) }

FlattenInit ==
    /\ properties = None
    /\ gen = NoGen
    /\ ret = NoRet
    /\ \/ \E n \in 0..MaxWidth :
          \E f \in [1..n -> Leaves \cup ListsOver(Leaves)] :
              call = [op |-> "flatten", lst |-> ListOf(f)]
       \/ \E lst \in Others : call = [op |-> "flatten", lst |-> lst]

\* flatten(lst): the generator is made; nothing of its body has run.
FlattenCall ==
    /\ call.op = "flatten"
    /\ gen.status = "none"
    /\ gen' = [status |-> "created", stack |-> <<>>, out |-> <<>>]
    /\ UNCHANGED <<properties, call, ret>>

\* The first next(): `for el in lst` asks lst for its iterator.
FlattenEnter ==
    /\ gen.status = "created"
    /\ IF IsIterable(call.lst)
       THEN gen' = [gen EXCEPT !.status = "running",
                               !.stack = <<[it |-> Elements(call.lst), pos |-> 1]>>]
       ELSE gen' = [gen EXCEPT !.status = "raised"]
    /\ ret' = IF IsIterable(call.lst) THEN ret ELSE Raise("TypeError")
    /\ UNCHANGED <<properties, call>>

\* The innermost frame's next element, when it has one.
Top == gen.stack[Len(gen.stack)]

HasElement == gen.status = "running" /\ Top.pos <= Len(Top.it)

Advanced == [gen.stack EXCEPT ![Len(gen.stack)].pos = @ + 1]

\* yield from flatten(el)
FlattenDescend ==
    /\ HasElement
    /\ ShouldDescend(Top.it[Top.pos])
    /\ gen' = [gen EXCEPT !.stack =
                   Append(Advanced, [it |-> Elements(Top.it[Top.pos]), pos |-> 1])]
    /\ UNCHANGED <<properties, call, ret>>

\* yield el
FlattenYield ==
    /\ HasElement
    /\ ~ShouldDescend(Top.it[Top.pos])
    /\ gen' = [gen EXCEPT !.stack = Advanced, !.out = Append(@, Top.it[Top.pos])]
    /\ UNCHANGED <<properties, call, ret>>

\* The innermost for loop ends: its flatten returns to the one that called
\* it, the outermost to the consumer.
FlattenReturn ==
    /\ gen.status = "running"
    /\ Top.pos > Len(Top.it)
    /\ gen' = [gen EXCEPT !.stack = SubSeq(@, 1, Len(@) - 1),
                           !.status = IF Len(gen.stack) = 1 THEN "done" ELSE @]
    /\ UNCHANGED <<properties, call, ret>>

FlattenNext ==
    \/ FlattenCall
    \/ FlattenEnter
    \/ FlattenDescend
    \/ FlattenYield
    \/ FlattenReturn

FlattenSpec == FlattenInit /\ [][FlattenNext]_vars

(***************************************************************************)
(* The registry's claims.                                                  *)
(***************************************************************************)

\* Attribute lookup on class c finds op: in c's own body, or by inheritance
\* from ObservatoryProperties.
Provides(c, op) == op \in c.defines \/ c.subclass

ProvidesAll(c) == \A op \in Ops : Provides(c, op)

\* What calling op on an instance of c with args comes to: the body c defines,
\* or, for an operation c only inherits, the registry's own query, which calls
\* itself until the interpreter stops it.
ImplOutcome(c, op, args) ==
    IF op \in c.defines THEN OwnResult(c, op, args) ELSE Raise("RecursionError")

\* C1: a query fails with ValueError ("Properties have not been set.") when the
\* slot is None, and otherwise its outcome is exactly that of the installed
\* instance's like-named operation on the same arguments; no query returns
\* while the slot is empty, and a query leaves the slot as it was.
C1_QueriesForwardOrFail ==
    call.op \in Ops =>
        /\ properties = call.pre
        /\ call.pre = None => ret = Raise("ValueError")
        /\ call.pre # None => ret = ImplOutcome(call.pre[1], call.op, call.args)
        /\ ret.kind = "return" => call.pre # None

C1_Witness ==
    /\ call.op = "determine_standard_time"
    /\ call.pre # None
    /\ ret.kind = "return"
    /\ ret.val[3] = call.args

\* C2: set_properties(cls) raises ValueError ("Illegal properties value.")
\* whenever cls does not provide all three operations, and installs cls only
\* when it provides all three.
C2_SetPropertiesChecksCapabilities ==
    call.op = "set_properties" =>
        /\ ~ProvidesAll(call.cls) =>
              /\ ret = Raise("ValueError")
              /\ properties = call.pre
        /\ (ret.kind = "return" /\ properties = <<call.cls>>) =>
              ProvidesAll(call.cls)

C2_Witness ==
    /\ call.op = "set_properties"
    /\ ~ProvidesAll(call.cls)
    /\ call.cls.instantiable
    /\ ret = Raise("ValueError")
    /\ call.pre # None

\* C3: the slot starts None; a set_properties that returns leaves the slot
\* holding an instance of its class, whatever the slot held before; nothing
\* else changes the slot; and a slot that is set is never None again.
C3_SlotLifecycle ==
    /\ call.op = "none" => properties = None
    /\ (call.op = "set_properties" /\ ret.kind = "return") =>
          properties = <<call.cls>>
    /\ (call.op = "set_properties" /\ ret.kind = "raise") =>
          properties = call.pre
    /\ call.op \in Ops =>
          /\ properties = call.pre
          /\ ret = Query(properties, call.op, call.args)
    /\ (call.op # "none" /\ call.pre # None) => properties # None

C3_Witness ==
    /\ call.op = "set_properties"
    /\ ret.kind = "return"
    /\ call.pre # None
    /\ call.pre # <<call.cls>>
    /\ properties = <<call.cls>>

\* C10: a set_properties that raises leaves the slot exactly as it was, so
\* every query has the outcome it had before the call.
C10_FailedSetLeavesSlot ==
    (call.op = "set_properties" /\ ret.kind = "raise") =>
        /\ properties = call.pre
        /\ \A op \in Ops : \A args \in ArgsOf(op) :
              Query(properties, op, args) = Query(call.pre, op, args)

C10_Witness ==
    /\ call.op = "set_properties"
    /\ ret.kind = "raise"
    /\ call.pre # None
    /\ properties = call.pre
    /\ call.cls.subclass

(***************************************************************************)
(* The conversions' claims.                                                *)
(***************************************************************************)

Abs(x) == IF x < 0 THEN -x ELSE x

\* sign_value * (d + m/60 + s/3600) for the dms2deg call being served.
Raw ==
    LET sv == IF call.sign = "-" THEN -1 ELSE 1
    IN  <<sv * (call.d * 3600 * call.s[2] + call.m * 60 * call.s[2] + call.s[1]),
          3600 * call.s[2]>>

Minus360(r) == <<r[1] - 360 * r[2], r[2]>>

\* C4 as the specification states it: dms2deg returns raw - 360 whenever the
\* magnitude of raw is at least 180 and raw otherwise; a sign outside
\* {'', '+', '-'} raises ValueError.
C4_WrapsOnMagnitude ==
    (call.op = "dms2deg" /\ ret.kind # "none") =>
        IF call.sign \notin {"", "+", "-"}
        THEN ret = Raise("ValueError")
        ELSE /\ ret.kind = "return"
             /\ RatEq(ret.val, IF Abs(Raw[1]) >= 180 * Raw[2]
                                THEN Minus360(Raw)
                                ELSE Raw)

\* C4, amended: dms2deg returns raw - 360 whenever raw itself, with its sign,
\* is at least 180, and raw otherwise (so -200 stays -200); a sign outside
\* {'', '+', '-'} raises ValueError.
C4_WrapsOnSignedValue ==
    (call.op = "dms2deg" /\ ret.kind # "none") =>
        IF call.sign \notin {"", "+", "-"}
        THEN ret = Raise("ValueError")
        ELSE /\ ret.kind = "return"
             /\ RatEq(ret.val, IF Raw[1] >= 180 * Raw[2]
                                THEN Minus360(Raw)
                                ELSE Raw)

C4_Witness ==
    /\ call.op = "dms2deg"
    /\ call.sign = "+" /\ call.d = 200 /\ call.m = 0 /\ call.s = <<0, 1>>
    /\ ret.kind = "return"
    /\ RatEq(ret.val, <<-160, 1>>)

\* The string of the dmsstr2deg call being served without its leading sign,
\* that sign, and the places of its colons.
Unsigned ==
    IF call.s # <<>> /\ call.s[1] \in {"+", "-"} THEN Tail(call.s) ELSE call.s

LeadingSign ==
    IF call.s # <<>> /\ call.s[1] \in {"+", "-"} THEN call.s[1] ELSE "+"

Colons == {i \in 1..Len(Unsigned) : Unsigned[i] = ":"}

\* The three fields of a string with two colons.
FieldD == SubSeq(Unsigned, 1, (CHOOSE i \in Colons : \A j \in Colons : i <= j) - 1)

FieldM ==
    SubSeq(Unsigned, (CHOOSE i \in Colons : \A j \in Colons : i <= j) + 1,
                     (CHOOSE i \in Colons : \A j \in Colons : i >= j) - 1)

FieldS ==
    SubSeq(Unsigned, (CHOOSE i \in Colons : \A j \in Colons : i >= j) + 1,
                     Len(Unsigned))

\* C5: dmsstr2deg raises ValueError for the empty string and for a string
\* that, without one leading '+' or '-', is not three colon-separated fields;
\* otherwise, for fields that read as int, int and float, its result is
\* dms2deg of them with the leading sign, '+' when there is none; so
\* "-10:30:00" gives -10.5 and "-0:30:00" gives -0.5.
C5_StringAgreesWithDms2deg ==
    (call.op = "dmsstr2deg" /\ ret.kind # "none") =>
        /\ (call.s = <<>> \/ Cardinality(Colons) # 2) => ret = Raise("ValueError")
        /\ (call.s # <<>> /\ Cardinality(Colons) = 2) =>
              LET d == ParseInt(FieldD)
                  m == ParseInt(FieldM)
                  sec == ParseFloat(FieldS)
              IN  IF d.kind = "return" /\ m.kind = "return" /\ sec.kind = "return"
                  THEN ret = dms2deg(d.val, m.val, sec.val, LeadingSign)
                  ELSE ret = Raise("ValueError")
        /\ call.s = <<"-", "1", "0", ":", "3", "0", ":", "0", "0">> =>
              ret.kind = "return" /\ RatEq(ret.val, <<-21, 2>>)
        /\ call.s = <<"-", "0", ":", "3", "0", ":", "0", "0">> =>
              ret.kind = "return" /\ RatEq(ret.val, <<-1, 2>>)

C5_Witness ==
    /\ call.op = "dmsstr2deg"
    /\ call.s = <<"-", "0", ":", "3", "0", ":", "0", "0">>
    /\ ret.kind = "return"
    /\ RatEq(ret.val, <<-1, 2>>)

(***************************************************************************)
(* lerp_enum's claims.                                                     *)
(***************************************************************************)

\* A sequence of n values of the enumeration that runs the way the ramp does.
IsStaircase(seq, e, f, l, n) ==
    /\ Len(seq) = n
    /\ \A k \in 1..Len(seq) : seq[k] \in e
    /\ f <= l => \A k \in 1..(Len(seq) - 1) : seq[k] <= seq[k + 1]
    /\ f > l => \A k \in 1..(Len(seq) - 1) : seq[k] >= seq[k + 1]

\* C6 as the specification states it: for a non-empty enumeration, any end
\* values and any n >= 0, lerp_enum returns n values of the enumeration,
\* non-decreasing when first_value <= last_value and non-increasing otherwise.
C6_StaircaseForAllEnds ==
    (call.op = "lerp_enum" /\ ret.kind # "none" /\ call.enum_class # {}) =>
        /\ ret.kind = "return"
        /\ IsStaircase(ret.val, call.enum_class, call.first_value,
                       call.last_value, call.n)

\* C6, amended: the same, for end values neither of which is below the least
\* value of the enumeration (as when both are values of the enumeration).
C6_StaircaseFromLeastValueUp ==
    ( /\ call.op = "lerp_enum" /\ ret.kind # "none" /\ call.enum_class # {}
      /\ \A v \in call.enum_class :
            (\A w \in call.enum_class : v <= w) =>
                v <= call.first_value /\ v <= call.last_value ) =>
        /\ ret.kind = "return"
        /\ IsStaircase(ret.val, call.enum_class, call.first_value,
                       call.last_value, call.n)

\* {0, 10, 20, 30} with first_value 0, last_value 30 and n = 3, in tens.
C6_Witness ==
    /\ call.op = "lerp_enum"
    /\ call.enum_class = {0, 1, 2, 3}
    /\ call.first_value = 0 /\ call.last_value = 3 /\ call.n = 3
    /\ ret = Return(<<0, 1, 2>>)

\* C7 as the specification states it: lerp_enum on an empty enumeration
\* fails, for every first_value, last_value and n, n = 0 included.
C7_EmptyEnumAlwaysFails ==
    (call.op = "lerp_enum" /\ ret.kind # "none" /\ call.enum_class = {}) =>
        ret.kind = "raise"

\* C7, amended: lerp_enum on an empty enumeration raises IndexError for every
\* n >= 1, and for n = 0 returns the empty sequence.
C7_EmptyEnumFailsForSlots ==
    (call.op = "lerp_enum" /\ ret.kind # "none" /\ call.enum_class = {}) =>
        /\ call.n >= 1 => ret = Raise("IndexError")
        /\ call.n = 0 => ret = Return(<<>>)

C7_Witness ==
    /\ call.op = "lerp_enum"
    /\ call.enum_class = {}
    /\ call.n = 2
    /\ ret = Raise("IndexError")

(***************************************************************************)
(* round_minute's and flatten's claims.                                    *)
(***************************************************************************)

\* The start of a timestamp's minute, found by counting down to it.
MinuteStart(tick) ==
    CHOOSE b \in 0..tick : b % TicksPerMinute = 0 /\ tick - b < TicksPerMinute

\* C8: for a scalar and for every element of an array, round_minute without
\* up gives the start of the timestamp's minute, and with up gives it when the
\* whole seconds are 0 and one minute later when they are not.
C8_RoundsScalarsAndArrays ==
    (call.op = "round_minute" /\ ret.kind # "none") =>
        /\ ret.kind = "return"
        /\ ret.val.scalar = call.time.scalar
        /\ Len(ret.val.vals) = Len(call.time.vals)
        /\ \A i \in 1..Len(call.time.vals) :
              LET t == call.time.vals[i]
                  whole == (t - MinuteStart(t)) \div TicksPerSecond
              IN  /\ ret.val.vals[i] % TicksPerMinute = 0
                  /\ ret.val.vals[i] =
                        IF call.up /\ whole # 0
                        THEN MinuteStart(t) + TicksPerMinute
                        ELSE MinuteStart(t)

\* The leaves of a structure from left to right: a list's are its items'
\* leaves one after the other, anything else is a leaf itself.
RECURSIVE LeavesOf(_)
LeavesOf(node) ==
    IF node.kind = "list"
    THEN LET RECURSIVE Cat(_)
             Cat(k) == IF k > Len(node.items)
                       THEN <<>>
                       ELSE LeavesOf(node.items[k]) \o Cat(k + 1)
         IN  Cat(1)
    ELSE <<node>>

\* C9: flatten of a nested list yields its leaves from left to right, strings
\* and bytes whole: what it has yielded so far is always a prefix of them, and
\* all of them once it is exhausted; [1, 2, [3, [4, 5]], "ab"] yields
\* 1, 2, 3, 4, 5, "ab".
C9_FlattenYieldsLeavesInOrder ==
    (call.op = "flatten" /\ call.lst.kind = "list"
     /\ gen.status \in {"running", "done"}) =>
        LET want == LeavesOf(call.lst)
        IN  /\ Len(gen.out) <= Len(want)
            /\ gen.out = SubSeq(want, 1, Len(gen.out))
            /\ gen.status = "done" => gen.out = want
            /\ (gen.status = "done" /\ call.lst = Example) =>
                  gen.out = <<IntLeaf(1), IntLeaf(2), IntLeaf(3), IntLeaf(4), IntLeaf(5),
                              StrLeaf(<<"a", "b">>)>>

C9_Witness ==
    /\ call.op = "flatten"
    /\ call.lst = Example
    /\ gen.status = "done"
    /\ gen.out = <<IntLeaf(1), IntLeaf(2), IntLeaf(3), IntLeaf(4), IntLeaf(5), StrLeaf(<<"a", "b">>)>>

====
